---- MODULE Spec2Model ----
(***************************************************************************)
(* Model of alt_names: the command-line reader (setup/cli_reader.rs), the  *)
(* configuration reader (setup/config_reader.rs), the orchestrator         *)
(* (lib.rs, run) and the import pipeline described in spec.md (sections    *)
(* 4.2 - 4.4), whose code is not part of the source tree.                  *)
(*                                                                         *)
(* Strings are sequences of one-character strings, Option<T> is a sequence *)
(* of length 0 (None) or 1 (Some), Result<T, E> is a record with the field *)
(* ok.                                                                     *)
(***************************************************************************)
EXTENDS Integers, Sequences, FiniteSets, TLC

VARIABLES
    \* ---- run (lib.rs) ----
    args,            \* the command line handed to run
    config_string,   \* the content of ./app_config.toml, as toml::from_str sees it
    pc,              \* position of run
    cli,             \* Option: result of fetch_valid_arguments
    config_res,      \* Option: result of populate_config_vars
    params,          \* Option: InitParams returned by get_params
    result,          \* what run returned
    calls,           \* the phases called so far, in order
    effects,         \* the phases that completed and left their effects behind
    failed,          \* the phases that returned an error
    LOG_RUNNING,     \* lib.rs OnceLock<bool>
    DB_PARS,         \* config_reader.rs OnceLock<DBPars>
    config_calls,    \* what each populate_config_vars call of the process returned, in order
    db_answers,      \* Option: the latest answers of fetch_db_name and fetch_db_conn_string
    \* ---- import pipeline (spec.md 4.2 - 4.4) ----
    ipc,             \* position of the import run
    include_non_latin,
    batch_size,
    read, accepted, rejected, skipped,   \* the run's counters
    buffer,          \* identifiers of the Accepted records of the batch in progress
    attempts,        \* failed attempts of the batch being committed
    table,           \* identifiers of the rows of the entity table
    batches,         \* sizes of the committed batches, in commit order
    inflight,        \* the batches handed to the loader and not yet settled, oldest first
    batch_failures,  \* number of failed commit attempts in the run
    source_kinds,    \* how many units of each kind the reader has consumed
    summary          \* Option: the ImportSummary row written for the run

runVars == <<args, config_string, pc, cli, config_res, params, result, calls,
             effects, failed, LOG_RUNNING, DB_PARS>>
importVars == <<ipc, include_non_latin, batch_size, read, accepted, rejected,
                skipped, buffer, attempts, table, batches, inflight,
                batch_failures, source_kinds, summary>>
configVars == <<config_calls, db_answers>>
vars == <<runVars, importVars, configVars>>

----------------------------------------------------------------------------
(* Option, Result, PathBuf                                                 *)

None == << >>
Some(x) == <<x>>
IsSome(o) == Len(o) = 1
Unwrap(o) == o[1]

Ok(v) == [ok |-> TRUE, val |-> v]
Err(e) == [ok |-> FALSE, err |-> e]

\* PathBuf::from(String) wraps the string unchanged; PathBuf::new() is the empty path.
PathBuf(s) == [os |-> s]
PathBufNew == PathBuf(<< >>)

----------------------------------------------------------------------------
(* Strings                                                                 *)

MaxLen == 1

Alphabet == {" ", "a"}
NoneLit == <<"n", "o", "n", "e">>
LogsLit == <<"l", "o", "g", "s">>

IsWhitespace(c) == c \in {" ", "\t", "\n", "\r"}

RECURSIVE TrimStart(_)
TrimStart(s) ==
    IF s = << >> THEN << >>
    ELSE IF IsWhitespace(Head(s)) THEN TrimStart(Tail(s)) ELSE s

RECURSIVE TrimEnd(_)
TrimEnd(s) ==
    IF s = << >> THEN << >>
    ELSE IF IsWhitespace(s[Len(s)]) THEN TrimEnd(SubSeq(s, 1, Len(s) - 1)) ELSE s

\* str::trim
Trim(s) == TrimEnd(TrimStart(s))

StringsUpTo(n) == UNION {[1..k -> Alphabet] : k \in 0..n}

----------------------------------------------------------------------------
(* setup/cli_reader.rs                                                     *)

\* What clap makes of the arguments: an error (unknown argument, --help, ...)
\* or the matches: each flag is true when present, src_file defaults to "".
parse_args(a) ==
    IF a.clap_err THEN Err("clap")
    ELSE Ok([src_file |-> a.src_file, i_flag |-> a.i_flag, r_flag |-> a.r_flag,
             x_flag |-> a.x_flag, z_flag |-> a.z_flag])

Flags(import_data, export_data, initialise, test_run) ==
    [import_data |-> import_data, export_data |-> export_data,
     initialise |-> initialise, test_run |-> test_run]

CliPars(source_file, flags) == [source_file |-> source_file, flags |-> flags]

fetch_valid_arguments_import_on_i(a) ==
    LET parse_result == parse_args(a) IN
    IF ~parse_result.ok THEN parse_result
    ELSE LET m == parse_result.val
             x_flag == IF m.r_flag /\ m.x_flag THEN FALSE ELSE m.x_flag
         IN Ok(CliPars(PathBuf(m.src_file),
                       Flags(m.r_flag, x_flag, m.i_flag, m.z_flag)))

fetch_valid_arguments(a) ==
    LET parse_result == parse_args(a) IN
    IF ~parse_result.ok THEN parse_result
    ELSE LET m == parse_result.val
             source_file == PathBuf(m.src_file)
         IN IF m.i_flag
            THEN Ok(CliPars(PathBufNew, Flags(FALSE, FALSE, m.i_flag, FALSE)))
            ELSE LET x_flag == IF m.r_flag /\ m.x_flag THEN FALSE ELSE m.x_flag
                 IN Ok(CliPars(source_file,
                               Flags(m.r_flag, x_flag, FALSE, m.z_flag)))

----------------------------------------------------------------------------
(* setup/config_reader.rs                                                  *)

TomlFilePars(d, l, o, s) ==
    [data_folder_path |-> d, log_folder_path |-> l,
     output_folder_path |-> o, src_file_name |-> s]

TomlDBPars(h, u, p, port, n) ==
    [db_host |-> h, db_user |-> u, db_password |-> p, db_port |-> port, db_name |-> n]

\* What toml::from_str makes of the config string: an error, or a TomlConfig
\* whose tables and values are each present or absent.
TomlConfig(files, database) == [parse_ok |-> TRUE, files |-> files, database |-> database]
TomlUnparsable == [parse_ok |-> FALSE, files |-> None, database |-> None]

\* match src_name { Some(s) => s, None => "none" }
OrNoneLit(src_name) == IF IsSome(src_name) THEN Unwrap(src_name) ELSE NoneLit

IsMissing(s) == s = NoneLit \/ Trim(s) = << >>

check_critical_pathbuf_no_trim(src_name, error_suffix) ==
    LET s == OrNoneLit(src_name) IN
    IF s = NoneLit \/ s = << >> THEN Err(error_suffix) ELSE Ok(PathBuf(s))

check_critical_pathbuf(src_name, error_suffix) ==
    LET s == OrNoneLit(src_name) IN
    IF IsMissing(s) THEN Err(error_suffix) ELSE Ok(PathBuf(s))

check_pathbuf(src_name, alt_path) ==
    LET s == OrNoneLit(src_name) IN
    IF IsMissing(s) THEN alt_path ELSE PathBuf(s)

verify_file_parameters(toml_files) ==
    LET data_folder_path ==
            check_critical_pathbuf(toml_files.data_folder_path, "a value for data_folder_path")
        src_file_name ==
            check_critical_pathbuf(toml_files.src_file_name, "a value for src_file_name")
    IN IF ~data_folder_path.ok THEN data_folder_path
       ELSE IF ~src_file_name.ok THEN src_file_name
       ELSE Ok([data_folder_path |-> data_folder_path.val,
                log_folder_path |-> check_pathbuf(toml_files.log_folder_path,
                                                  data_folder_path.val),
                output_folder_path |-> check_pathbuf(toml_files.output_folder_path,
                                                     data_folder_path.val),
                src_file_name |-> src_file_name.val])

check_critical_db_par(src_name, error_suffix) ==
    LET s == OrNoneLit(src_name) IN
    IF IsMissing(s) THEN Err(error_suffix) ELSE Ok(s)

check_db_par(src_name, default) ==
    LET s == OrNoneLit(src_name) IN
    IF IsMissing(s) THEN default ELSE s

Digits == <<"0", "1", "2", "3", "4", "5", "6", "7", "8", "9">>
IsDigit(c) == \E k \in 1..10 : Digits[k] = c
DigitVal(c) == (CHOOSE k \in 1..10 : Digits[k] = c) - 1

RECURSIVE DigitsValue(_, _)
DigitsValue(s, acc) ==
    IF s = << >> THEN acc ELSE DigitsValue(Tail(s), acc * 10 + DigitVal(Head(s)))

\* str::parse::<usize>: an optional '+', then one or more digits and nothing else.
ParseUsize(s) ==
    LET body == IF s # << >> /\ Head(s) = "+" THEN Tail(s) ELSE s IN
    IF body # << >> /\ \A k \in 1..Len(body) : IsDigit(body[k])
    THEN Ok(DigitsValue(body, 0)) ELSE Err("parse")

DefaultHost == <<"l", "o", "c", "a", "l", "h", "o", "s", "t">>
DefaultPortString == <<"5", "4", "3", "2">>
DefaultPort == 5432
DefaultDbName == <<"g", "e", "o">>

verify_db_parameters(toml_database) ==
    LET db_user == check_critical_db_par(toml_database.db_user, "read user name from config file")
        db_password ==
            check_critical_db_par(toml_database.db_password, "read user password from config file")
        db_port_as_string == check_db_par(toml_database.db_port, DefaultPortString)
        parsed == ParseUsize(db_port_as_string)
    IN IF ~db_user.ok THEN db_user
       ELSE IF ~db_password.ok THEN db_password
       ELSE Ok([db_host |-> check_db_par(toml_database.db_host, DefaultHost),
                db_user |-> db_user.val,
                db_password |-> db_password.val,
                db_port |-> IF parsed.ok THEN parsed.val ELSE DefaultPort,
                db_name |-> check_db_par(toml_database.db_name, DefaultDbName)])

\* The value populate_config_vars returns.
populate_config_vars(cs) ==
    IF ~cs.parse_ok THEN Err("open config file")
    ELSE IF ~IsSome(cs.database) THEN Err("read DB parameters from config file")
    ELSE IF ~IsSome(cs.files) THEN Err("read file parameters from config file")
    ELSE LET config_files == verify_file_parameters(Unwrap(cs.files))
             config_db_pars == verify_db_parameters(Unwrap(cs.database))
         IN IF ~config_files.ok THEN config_files
            ELSE IF ~config_db_pars.ok THEN config_db_pars
            ELSE Ok([files |-> config_files.val, db_pars |-> config_db_pars.val])

OnceLockOverwrite(cell, v) == Some(v)

\* OnceLock::set: stores the value only when the cell is still empty.
OnceLockSet(cell, v) == IF IsSome(cell) THEN cell ELSE Some(v)

\* DB_PARS after populate_config_vars: set, when still empty, by a call that
\* gets as far as its last statements.
DbParsAfter(cell, res) == IF res.ok THEN OnceLockSet(cell, res.val.db_pars) ELSE cell

RECURSIVE UsizeDigits(_)
UsizeDigits(n) ==
    IF n < 10 THEN <<Digits[n + 1]>> ELSE Append(UsizeDigits(n \div 10), Digits[(n % 10) + 1])

fetch_db_name(cell) ==
    IF IsSome(cell) THEN Ok(Unwrap(cell).db_name)
    ELSE Err("Unable to obtain DB name when retrieving database name")

PostgresScheme == <<"p", "o", "s", "t", "g", "r", "e", "s", ":", "/", "/">>

fetch_db_conn_string(cell, db_name) ==
    IF IsSome(cell)
    THEN LET db_pars == Unwrap(cell)
         IN Ok(PostgresScheme \o db_pars.db_user \o <<":">> \o db_pars.db_password
               \o <<"@">> \o db_pars.db_host \o <<":">> \o UsizeDigits(db_pars.db_port)
               \o <<"/">> \o db_name)
    ELSE Err("Unable to obtain DB parameters when building connection string")

----------------------------------------------------------------------------
(* setup (get_params, get_db_pool): the glue between the readers and run   *)

InitParams(config, cli_pars) ==
    [data_folder |-> config.files.data_folder_path,
     log_folder |-> config.files.log_folder_path,
     output_folder |-> config.files.output_folder_path,
     source_file_name |-> IF cli_pars.source_file = PathBufNew
                          THEN config.files.src_file_name
                          ELSE cli_pars.source_file,
     flags |-> cli_pars.flags]

\* get_params: the command line is read first, then the configuration; the
\* flags reach run as fetch_valid_arguments returned them.
get_params(a, cs) ==
    LET cli_res == fetch_valid_arguments(a)
        cfg_res == populate_config_vars(cs)
    IN IF ~cli_res.ok THEN [res |-> cli_res, cli |-> Some(cli_res), config |-> None]
       ELSE IF ~cfg_res.ok
            THEN [res |-> cfg_res, cli |-> Some(cli_res), config |-> Some(cfg_res)]
            ELSE [res |-> Ok(InitParams(cfg_res.val, cli_res.val)),
                  cli |-> Some(cli_res), config |-> Some(cfg_res)]

\* get_db_pool needs the connection string, which needs DB_PARS.
DbPoolReachable(cell) ==
    LET name == fetch_db_name(cell) IN
    name.ok /\ fetch_db_conn_string(cell, name.val).ok

----------------------------------------------------------------------------
(* lib.rs: run                                                             *)

Running == [state |-> "running", phase |-> ""]
RunOk == [state |-> "ok", phase |-> ""]
RunErr(phase) == [state |-> "err", phase |-> phase]

PropagateIgnoringError(phase, ok, next) ==
    [pc |-> next, result |-> IF next = "returned" THEN RunOk ELSE Running]

\* The ? after each phase: an error returns from run at once.
Propagate(phase, ok, next) ==
    IF ok THEN [pc |-> next, result |-> IF next = "returned" THEN RunOk ELSE Running]
    ELSE [pc |-> "returned", result |-> RunErr(phase)]

\* if !test_run { setup_log ... }
AfterParams(flags) == IF ~flags.test_run THEN "setup_log" ELSE "get_db_pool"

\* if flags.export_data { export_data } ; Ok(())
AfterSummarise(flags) == IF flags.export_data THEN "export_data" ELSE "returned"

AfterImportDataNeverSummarise(flags) == AfterSummarise(flags)

\* if !test_run { summarise_import } and what follows
AfterImportData(flags) ==
    IF ~flags.test_run THEN "summarise_import" ELSE AfterSummarise(flags)

\* if flags.initialise { ... } else { if flags.import_data { ... } if flags.export_data { ... } }
ModeBranch(flags) ==
    IF flags.initialise THEN "create_geo_tables"
    ELSE IF flags.import_data THEN "import_data"
    ELSE AfterSummarise(flags)

\* One phase of run: it is called, it succeeds or fails, and run goes on or returns.
Phase(p, ok, next) ==
    /\ calls' = Append(calls, p)
    /\ effects' = IF ok THEN effects \cup {p} ELSE effects
    /\ failed' = IF ok THEN failed ELSE failed \cup {p}
    /\ LET o == Propagate(p, ok, next)
       IN pc' = o.pc /\ result' = o.result

ReadConfigFile ==
    /\ pc = "start"
    /\ \E ok \in BOOLEAN : Phase("read_config", ok, "get_params")
    /\ UNCHANGED <<args, config_string, cli, config_res, params, LOG_RUNNING, DB_PARS>>
    /\ UNCHANGED importVars
    /\ UNCHANGED configVars

GetParams ==
    /\ pc = "get_params"
    /\ LET got == get_params(args, config_string)
       IN /\ cli' = got.cli
          /\ config_res' = got.config
          /\ config_calls' = IF IsSome(got.config)
                             THEN Append(config_calls, Unwrap(got.config)) ELSE config_calls
          /\ DB_PARS' = IF IsSome(got.config)
                        THEN DbParsAfter(DB_PARS, Unwrap(got.config)) ELSE DB_PARS
          /\ params' = IF got.res.ok THEN Some(got.res.val) ELSE None
          /\ Phase("get_params", got.res.ok,
                   IF got.res.ok THEN AfterParams(got.res.val.flags) ELSE "returned")
    /\ UNCHANGED <<args, config_string, LOG_RUNNING, db_answers>>
    /\ UNCHANGED importVars

SetupLog ==
    /\ pc = "setup_log"
    /\ \E ok \in BOOLEAN :
          /\ Phase("setup_log", ok, "get_db_pool")
          /\ LOG_RUNNING' = IF ok THEN OnceLockSet(LOG_RUNNING, TRUE) ELSE LOG_RUNNING
    /\ UNCHANGED <<args, config_string, cli, config_res, params, DB_PARS>>
    /\ UNCHANGED importVars
    /\ UNCHANGED configVars

GetDbPool ==
    /\ pc = "get_db_pool"
    /\ \E connected \in BOOLEAN :
          Phase("get_db_pool", connected /\ DbPoolReachable(DB_PARS),
                ModeBranch(Unwrap(params).flags))
    /\ UNCHANGED <<args, config_string, cli, config_res, params, LOG_RUNNING, DB_PARS>>
    /\ UNCHANGED importVars
    /\ UNCHANGED configVars

CreateGeoTables ==
    /\ pc = "create_geo_tables"
    /\ \E ok \in BOOLEAN : Phase("create_geo_tables", ok, "returned")
    /\ UNCHANGED <<args, config_string, cli, config_res, params, LOG_RUNNING, DB_PARS>>
    /\ UNCHANGED importVars
    /\ UNCHANGED configVars

ImportData ==
    /\ pc = "import_data"
    /\ \E ok \in BOOLEAN : Phase("import_data", ok, AfterImportData(Unwrap(params).flags))
    /\ UNCHANGED <<args, config_string, cli, config_res, params, LOG_RUNNING, DB_PARS>>
    /\ UNCHANGED importVars
    /\ UNCHANGED configVars

SummariseImport ==
    /\ pc = "summarise_import"
    /\ \E ok \in BOOLEAN : Phase("summarise_import", ok, AfterSummarise(Unwrap(params).flags))
    /\ UNCHANGED <<args, config_string, cli, config_res, params, LOG_RUNNING, DB_PARS>>
    /\ UNCHANGED importVars
    /\ UNCHANGED configVars

ExportData ==
    /\ pc = "export_data"
    /\ \E ok \in BOOLEAN : Phase("export_data", ok, "returned")
    /\ UNCHANGED <<args, config_string, cli, config_res, params, LOG_RUNNING, DB_PARS>>
    /\ UNCHANGED importVars
    /\ UNCHANGED configVars

----------------------------------------------------------------------------
(* Inputs                                                                  *)

SourceFileArgs == {<< >>, <<"a">>}

ArgSets ==
    [i_flag : BOOLEAN, r_flag : BOOLEAN, x_flag : BOOLEAN, z_flag : BOOLEAN,
     src_file : SourceFileArgs, clap_err : BOOLEAN]

\* The values a config key can have: absent, or a string.
ConfigStrings == StringsUpTo(MaxLen) \cup {NoneLit, LogsLit}
ConfigValues == {None} \cup {Some(s) : s \in ConfigStrings}

FullDatabase ==
    TomlDBPars(Some(<<"h">>), Some(<<"u">>), Some(<<"p">>), Some(<<"5", "4", "3", "3">>),
               Some(<<"g">>))

\* The configurations run is started with: unreadable, complete, one with the
\* optional values left out, and one without a user name.
RunConfigs ==
    { TomlUnparsable,
      TomlConfig(Some(TomlFilePars(Some(<<"a">>), Some(LogsLit), Some(<<"a">>), Some(<<"a">>))),
                 Some(FullDatabase)),
      TomlConfig(Some(TomlFilePars(Some(<<"a">>), None, None, Some(<<"a">>))),
                 Some(TomlDBPars(None, Some(<<"u">>), Some(<<"p">>), None, None))),
      TomlConfig(Some(TomlFilePars(Some(<<"a">>), None, None, Some(<<"a">>))),
                 Some(TomlDBPars(None, Some(<<" ">>), Some(<<"p">>), None, None))) }

NoUnits == [well_formed |-> 0, malformed |-> 0, non_latin |-> 0]

ImportIdle ==
    /\ ipc = "idle"
    /\ include_non_latin = FALSE
    /\ batch_size = 1
    /\ read = 0 /\ accepted = 0 /\ rejected = 0 /\ skipped = 0
    /\ buffer = << >>
    /\ attempts = 0
    /\ table = {}
    /\ batches = << >>
    /\ inflight = << >>
    /\ batch_failures = 0
    /\ source_kinds = NoUnits
    /\ summary = None

RunFresh ==
    /\ cli = None
    /\ config_res = None
    /\ params = None
    /\ result = Running
    /\ calls = << >>
    /\ effects = {}
    /\ failed = {}
    /\ LOG_RUNNING = None
    /\ DB_PARS = None
    /\ config_calls = << >>
    /\ db_answers = None

Init ==
    /\ args \in ArgSets
    /\ config_string \in RunConfigs
    /\ pc = "start"
    /\ RunFresh
    /\ ImportIdle

Next ==
    \/ ReadConfigFile
    \/ GetParams
    \/ SetupLog
    \/ GetDbPool
    \/ CreateGeoTables
    \/ ImportData
    \/ SummariseImport
    \/ ExportData

Spec == Init /\ [][Next]_vars

----------------------------------------------------------------------------
(* Properties of run and of the command-line reader (checked under Spec)   *)

Called(p) == \E k \in DOMAIN calls : calls[k] = p
CallIndex(p) == CHOOSE k \in DOMAIN calls : calls[k] = p
CalledBefore(p, q) == Called(p) /\ Called(q) /\ CallIndex(p) < CallIndex(q)

CliReturned == IsSome(cli) /\ Unwrap(cli).ok
CliFlags == Unwrap(cli).val.flags
RunFlags == Unwrap(params).flags

ChosenModes(flags) ==
    {m \in {"initialise", "import_data", "export_data"} : flags[m]}

\* C1: for every combination of -i, -r, -x and -z, run selects exactly one of
\* the modes initialise, import and export: never none, never more than one.
C1_ExactlyOneMode ==
    IsSome(params) => Cardinality(ChosenModes(RunFlags)) = 1

\* C2: with none of -i, -r, -x on the command line (and no -z, with or without
\* -s), fetch_valid_arguments returns import_data = true, export_data = false,
\* initialise = false and test_run = false: import is the default mode.
C2_ImportIsDefault ==
    (CliReturned /\ ~args.i_flag /\ ~args.r_flag /\ ~args.x_flag /\ ~args.z_flag)
        => CliFlags = Flags(TRUE, FALSE, FALSE, FALSE)

\* C3: with both -r and -x on the command line and no -i, fetch_valid_arguments
\* returns import_data = true and export_data = true, and run calls export_data
\* after import_data has completed successfully.
C3_ExportAfterImport ==
    (~args.i_flag /\ args.r_flag /\ args.x_flag) =>
        /\ CliReturned => (CliFlags.import_data /\ CliFlags.export_data)
        /\ (pc = "returned" /\ result = RunOk) => CalledBefore("import_data", "export_data")

\* C4 as stated: whenever import_data was called and returned Ok,
\* summarise_import is called afterwards, before any export and before run
\* returns, whatever the test_run flag.
C4_ImportAlwaysSummarised ==
    ("import_data" \in effects /\ (pc = "returned" \/ Called("export_data")))
        => /\ CalledBefore("import_data", "summarise_import")
           /\ Called("export_data") => CalledBefore("summarise_import", "export_data")

\* C4 as amended: when test_run is false, an import_data that returned Ok is
\* followed by summarise_import, before any export and before run returns;
\* when test_run is true, summarise_import is never called.
C4_ImportSummarisedUnlessTestRun ==
    /\ ("import_data" \in effects /\ ~RunFlags.test_run
            /\ (pc = "returned" \/ Called("export_data")))
        => /\ CalledBefore("import_data", "summarise_import")
           /\ Called("export_data") => CalledBefore("summarise_import", "export_data")
    /\ (IsSome(params) /\ RunFlags.test_run) => ~Called("summarise_import")

C4_Witness ==
    /\ pc = "returned"
    /\ "import_data" \in effects
    /\ ~RunFlags.test_run
    /\ CalledBefore("import_data", "summarise_import")

\* C5: when a phase returns an error, run has returned that error, the failed
\* phase is the last one called, and every phase that completed before it has
\* kept its effects.
C5_FatalErrorStops ==
    failed # {} =>
        /\ pc = "returned"
        /\ result = RunErr(calls[Len(calls)])
        /\ failed = {calls[Len(calls)]}
        /\ effects = {calls[k] : k \in 1..(Len(calls) - 1)}

C5_Witness ==
    /\ failed = {"summarise_import"}
    /\ "import_data" \in effects
    /\ result = RunErr("summarise_import")

\* C6: with -i on the command line, whatever -r, -x, -z and -s are,
\* fetch_valid_arguments returns initialise = true, import_data = false,
\* export_data = false, test_run = false and an empty source_file, and run
\* calls create_geo_tables and none of import_data, summarise_import, export_data.
C6_InitialiseOnly ==
    args.i_flag =>
        /\ CliReturned => Unwrap(cli).val = CliPars(PathBufNew, Flags(FALSE, FALSE, TRUE, FALSE))
        /\ ~Called("import_data") /\ ~Called("summarise_import") /\ ~Called("export_data")
        /\ "get_db_pool" \in effects => (pc = "create_geo_tables" \/ Called("create_geo_tables"))
        /\ (pc = "returned" /\ result = RunOk) => Called("create_geo_tables")

C6_Witness ==
    /\ args.i_flag /\ args.r_flag /\ args.x_flag /\ args.z_flag
    /\ args.src_file # << >>
    /\ pc = "returned" /\ result = RunOk
    /\ Called("create_geo_tables")

----------------------------------------------------------------------------
(* populate_config_vars on its own (SpecConfig): one call on any config    *)

FileTables ==
    {None} \cup
    {Some(TomlFilePars(d, l, o, s)) :
        d \in ConfigValues, l \in ConfigValues, o \in ConfigValues, s \in ConfigValues}

\* db_host, db_port and db_name: all left out, or all given.
DatabaseOptionals ==
    { <<None, None, None>>,
      <<FullDatabase.db_host, FullDatabase.db_port, FullDatabase.db_name>> }

DatabaseTables ==
    {None} \cup
    {Some(TomlDBPars(opt[1], u, p, opt[2], opt[3])) :
        u \in ConfigValues, p \in ConfigValues, opt \in DatabaseOptionals}

NoArgs ==
    [i_flag |-> FALSE, r_flag |-> FALSE, x_flag |-> FALSE, z_flag |-> FALSE,
     src_file |-> << >>, clap_err |-> FALSE]

InitConfig ==
    /\ args = NoArgs
    /\ \/ config_string = TomlUnparsable
       \/ \E f \in FileTables, d \in DatabaseTables : config_string = TomlConfig(f, d)
    /\ pc = "config_start"
    /\ RunFresh
    /\ ImportIdle

PopulateConfigVars ==
    /\ pc = "config_start"
    /\ LET res == populate_config_vars(config_string)
       IN /\ config_res' = Some(res)
          /\ DB_PARS' = DbParsAfter(DB_PARS, res)
          /\ config_calls' = Append(config_calls, res)
    /\ pc' = "config_done"
    /\ UNCHANGED <<args, config_string, cli, params, result, calls, effects, failed,
                   LOG_RUNNING, db_answers>>
    /\ UNCHANGED importVars

NextConfig == PopulateConfigVars

SpecConfig == InitConfig /\ [][NextConfig]_vars

\* A config value that is absent, empty or made of whitespace only.
Blank(v) == ~IsSome(v) \/ \A k \in DOMAIN Unwrap(v) : IsWhitespace(Unwrap(v)[k])

RequiredPresent(cs) ==
    /\ cs.parse_ok /\ IsSome(cs.files) /\ IsSome(cs.database)
    /\ ~Blank(Unwrap(cs.files).data_folder_path)
    /\ ~Blank(Unwrap(cs.files).src_file_name)
    /\ ~Blank(Unwrap(cs.database).db_user)
    /\ ~Blank(Unwrap(cs.database).db_password)

ConfigReturned == pc = "config_done"
ConfigResult == Unwrap(config_res)

\* C7: populate_config_vars returns Ok only when data_folder_path,
\* src_file_name, db_user and db_password are all present and non-blank; if one
\* of them is absent, empty or whitespace-only, or its table is absent, it
\* returns an error.
C7_RequiredValuesChecked ==
    ConfigReturned => (ConfigResult.ok => RequiredPresent(config_string))

C7_Witness ==
    /\ ConfigReturned
    /\ ~ConfigResult.ok
    /\ config_string.parse_ok /\ IsSome(config_string.files)
    /\ IsSome(config_string.database)
    /\ Unwrap(config_string.database).db_user = Some(<<"a">>)
    /\ Unwrap(config_string.database).db_password = Some(<<"a">>)
    /\ Unwrap(config_string.files) =
           TomlFilePars(Some(<<" ">>), Some(LogsLit), Some(LogsLit), Some(<<"a">>))

FolderOrDefault(v, data_folder_path) ==
    IF Blank(v) THEN data_folder_path ELSE PathBuf(Unwrap(v))

\* C8: in a Config returned by populate_config_vars, log_folder_path and
\* output_folder_path each equal the configured value when it is present and
\* non-blank, and data_folder_path when it is absent, empty or whitespace-only.
C8_FoldersDefaultToDataFolder ==
    (ConfigReturned /\ ConfigResult.ok) =>
        LET given == Unwrap(config_string.files)
            files == ConfigResult.val.files
        IN /\ files.log_folder_path =
                  FolderOrDefault(given.log_folder_path, files.data_folder_path)
           /\ files.output_folder_path =
                  FolderOrDefault(given.output_folder_path, files.data_folder_path)

----------------------------------------------------------------------------
(* The import run: Source Reader, Batch Loader, Import Summarizer          *)
(* (spec.md 4.2 - 4.4; SpecImport)                                         *)

MaxRecords == 7
MaxBatch == 2
MaxRetries == 1
MaxInFlight == 1

UnitKinds == {"well_formed", "malformed", "non_latin"}

ClassifyKeepingNonLatin(kind, keep_non_latin) ==
    IF kind = "malformed" THEN "Rejected" ELSE "Accepted"

\* The reader's outcome for one input unit: a unit that does not parse is
\* Rejected; a parsed record with a non-Latin name is dropped and counted as
\* skipped unless non-Latin names are retained; any other record is Accepted.
Classify(kind, keep_non_latin) ==
    IF kind = "malformed" THEN "Rejected"
    ELSE IF kind = "non_latin" /\ ~keep_non_latin THEN "Skipped"
    ELSE "Accepted"

Counters(r, a, j, s) == [read |-> r, accepted |-> a, rejected |-> j, skipped |-> s]

\* The counters after the reader has classified one more unit.
CountOutcome(c, outcome) ==
    Counters(c.read + 1,
             IF outcome = "Accepted" THEN c.accepted + 1 ELSE c.accepted,
             IF outcome = "Rejected" THEN c.rejected + 1 ELSE c.rejected,
             IF outcome = "Skipped" THEN c.skipped + 1 ELSE c.skipped)

CountExhaustedTwice(c, n) ==
    Counters(c.read, c.accepted, c.rejected + n, c.skipped)

\* The counters after a batch of n records has exhausted its retries: its
\* records are counted as rejected, no longer as accepted.
CountExhausted(c, n) ==
    Counters(c.read, c.accepted - n, c.rejected + n, c.skipped)

CurrentCounters == Counters(read, accepted, rejected, skipped)

SetCounters(c) ==
    /\ read' = c.read
    /\ accepted' = c.accepted
    /\ rejected' = c.rejected
    /\ skipped' = c.skipped

\* Upsert keyed by the record identifier.
Upsert(rows, batch) == rows \cup {batch[k] : k \in DOMAIN batch}

\* The reader consumes one unit. A record's identifier is its position in the
\* file, so identifiers are unique within the run.
ReadUnit ==
    /\ ipc = "reading"
    /\ Len(buffer) < batch_size
    /\ read < MaxRecords
    /\ \E kind \in UnitKinds :
          LET outcome == Classify(kind, include_non_latin)
          IN /\ SetCounters(CountOutcome(CurrentCounters, outcome))
             /\ buffer' = IF outcome = "Accepted" THEN Append(buffer, read + 1) ELSE buffer
             /\ source_kinds' = [source_kinds EXCEPT ![kind] = @ + 1]
    /\ UNCHANGED <<ipc, include_non_latin, batch_size, attempts, table, batches, inflight,
                   batch_failures, summary>>
    /\ UNCHANGED runVars
    /\ UNCHANGED configVars

\* A full batch goes to the loader, unless the in-flight limit is reached:
\* then the reader waits.
HandOver ==
    /\ ipc = "reading"
    /\ Len(buffer) = batch_size
    /\ Len(inflight) < MaxInFlight
    /\ inflight' = Append(inflight, buffer)
    /\ buffer' = << >>
    /\ UNCHANGED <<ipc, include_non_latin, batch_size, read, accepted, rejected, skipped,
                   attempts, table, batches, batch_failures, source_kinds, summary>>
    /\ UNCHANGED runVars
    /\ UNCHANGED configVars

\* The reader meets a Fatal condition (unreadable source, structure
\* mismatch): iteration and batch production stop, what is committed stays.
\* No record was read, so no counter moves.
ReadFatal ==
    /\ ipc = "reading"
    /\ ipc' = "fatal"
    /\ UNCHANGED <<include_non_latin, batch_size, read, accepted, rejected, skipped, buffer,
                   attempts, table, batches, inflight, batch_failures, source_kinds, summary>>
    /\ UNCHANGED runVars
    /\ UNCHANGED configVars

\* The source is exhausted: the records still buffered form the last batch.
EndOfSource ==
    /\ ipc = "reading"
    /\ Len(buffer) < batch_size
    /\ buffer # << >> => Len(inflight) < MaxInFlight
    /\ inflight' = IF buffer # << >> THEN Append(inflight, buffer) ELSE inflight
    /\ buffer' = << >>
    /\ ipc' = "draining"
    /\ UNCHANGED <<include_non_latin, batch_size, read, accepted, rejected, skipped,
                   attempts, table, batches, batch_failures, source_kinds, summary>>
    /\ UNCHANGED runVars
    /\ UNCHANGED configVars

\* The oldest in-flight batch commits as a whole.
CommitBatch ==
    /\ ipc \in {"reading", "draining"}
    /\ inflight # << >>
    /\ table' = Upsert(table, Head(inflight))
    /\ batches' = Append(batches, Len(Head(inflight)))
    /\ inflight' = Tail(inflight)
    /\ attempts' = 0
    /\ UNCHANGED <<ipc, include_non_latin, batch_size, read, accepted, rejected, skipped,
                   buffer, batch_failures, source_kinds, summary>>
    /\ UNCHANGED runVars
    /\ UNCHANGED configVars

\* An attempt to commit the oldest in-flight batch fails and rolls back: it is
\* retried, or, the retries exhausted, given up and its records counted as
\* rejected.
CommitFails ==
    /\ ipc \in {"reading", "draining"}
    /\ inflight # << >>
    /\ batch_failures' = batch_failures + 1
    /\ IF attempts < MaxRetries
       THEN /\ attempts' = attempts + 1
            /\ UNCHANGED <<inflight, read, accepted, rejected, skipped>>
       ELSE /\ attempts' = 0
            /\ inflight' = Tail(inflight)
            /\ SetCounters(CountExhausted(CurrentCounters, Len(Head(inflight))))
    /\ UNCHANGED <<ipc, include_non_latin, batch_size, buffer, table, batches, source_kinds,
                   summary>>
    /\ UNCHANGED runVars
    /\ UNCHANGED configVars

\* Loading is complete once the source is exhausted and no batch is in flight.
LoadingDone ==
    /\ ipc = "draining"
    /\ inflight = << >>
    /\ ipc' = "done"
    /\ UNCHANGED <<include_non_latin, batch_size, read, accepted, rejected, skipped, buffer,
                   attempts, table, batches, inflight, batch_failures, source_kinds, summary>>
    /\ UNCHANGED runVars
    /\ UNCHANGED configVars

\* The summarizer writes the run's ImportSummary row from the counters, or
\* fails to write it.
Summarise ==
    /\ ipc = "done"
    /\ \E ok \in BOOLEAN :
          IF ok THEN summary' = Some(CurrentCounters) /\ ipc' = "summarised"
          ELSE summary' = summary /\ ipc' = "summary_failed"
    /\ UNCHANGED <<include_non_latin, batch_size, read, accepted, rejected, skipped, buffer,
                   attempts, table, batches, inflight, batch_failures, source_kinds>>
    /\ UNCHANGED runVars
    /\ UNCHANGED configVars

InitImport ==
    /\ args = NoArgs
    /\ config_string = TomlUnparsable
    /\ pc = "import_data"
    /\ RunFresh
    /\ ipc = "reading"
    /\ include_non_latin \in BOOLEAN
    /\ batch_size \in 1..MaxBatch
    /\ read = 0 /\ accepted = 0 /\ rejected = 0 /\ skipped = 0
    /\ buffer = << >>
    /\ attempts = 0
    /\ table = {}
    /\ batches = << >>
    /\ inflight = << >>
    /\ batch_failures = 0
    /\ source_kinds = NoUnits
    /\ summary = None

NextImport ==
    \/ ReadUnit
    \/ HandOver
    \/ ReadFatal
    \/ EndOfSource
    \/ CommitBatch
    \/ CommitFails
    \/ LoadingDone
    \/ Summarise

SpecImport == InitImport /\ [][NextImport]_vars

ImportEnded == ipc \in {"done", "fatal", "summarised", "summary_failed"}

\* C9: at the end of every import run, read = accepted + rejected + skipped,
\* whatever the source file, the batch size and the batch failures, also when
\* a batch exhausted its retries and when a Fatal outcome stopped the run.
C9_CountersAddUp ==
    ImportEnded => read = accepted + rejected + skipped

C9_Witness ==
    /\ ipc = "fatal"
    /\ rejected > source_kinds.malformed
    /\ accepted > 0 /\ skipped > 0
    /\ table # {}

Scenario7 ==
    /\ ipc = "summarised"
    /\ source_kinds = [well_formed |-> 5, malformed |-> 1, non_latin |-> 1]
    /\ ~include_non_latin
    /\ batch_failures = 0

\* C10 as stated: 7 records, 5 well-formed, 1 missing a required field, 1 with
\* a non-Latin name, non-Latin names not retained, no batch failure: the
\* summary is read 7, accepted 4, rejected 1, skipped 1 and the table has 4 rows.
C10_ScenarioAcceptsFour ==
    Scenario7 => (summary = Some(Counters(7, 4, 1, 1)) /\ Cardinality(table) = 4)

\* C10 as amended: the same run ends with the summary read 7, accepted 5,
\* rejected 1, skipped 1 and a table of 5 rows.
C10_ScenarioAcceptsFive ==
    Scenario7 => (summary = Some(Counters(7, 5, 1, 1)) /\ Cardinality(table) = 5)

C10_Witness == Scenario7 /\ Len(batches) > 1

----------------------------------------------------------------------------
(* DB_PARS over the calls of one process (SpecDbPars): populate_config_vars *)
(* is called again and again, fetch_db_name and fetch_db_conn_string in     *)
(* between                                                                  *)

MaxCalls == 3

DbUsers == {None, Some(<<" ">>), Some(<<"a">>), Some(LogsLit)}

ProcessFileTables ==
    { None,
      Some(TomlFilePars(Some(<<"a">>), None, None, Some(<<"a">>))),
      Some(TomlFilePars(None, None, None, Some(<<"a">>))) }

ProcessDatabaseTables ==
    {None} \cup
    {Some(TomlDBPars(opt[1], u, Some(<<"a">>), opt[2], opt[3])) :
        u \in DbUsers, opt \in DatabaseOptionals}

ProcessConfigs ==
    {TomlUnparsable} \cup
    {TomlConfig(f, d) : f \in ProcessFileTables, d \in ProcessDatabaseTables}

InitDbPars ==
    /\ args = NoArgs
    /\ config_string = TomlUnparsable
    /\ pc = "config_calls"
    /\ RunFresh
    /\ ImportIdle

\* One more call of populate_config_vars, on any config.
CallPopulateConfigVars ==
    /\ pc = "config_calls"
    /\ Len(config_calls) < MaxCalls
    /\ \E cs \in ProcessConfigs :
          LET res == populate_config_vars(cs)
          IN /\ config_string' = cs
             /\ config_res' = Some(res)
             /\ DB_PARS' = DbParsAfter(DB_PARS, res)
             /\ config_calls' = Append(config_calls, res)
    /\ UNCHANGED <<args, pc, cli, params, result, calls, effects, failed, LOG_RUNNING,
                   db_answers>>
    /\ UNCHANGED importVars

\* fetch_db_name, then fetch_db_conn_string for that name.
FetchDb ==
    /\ pc = "config_calls"
    /\ LET name == fetch_db_name(DB_PARS)
       IN db_answers' = Some([after |-> Len(config_calls),
                              name |-> name,
                              conn |-> fetch_db_conn_string(
                                           DB_PARS, IF name.ok THEN name.val ELSE << >>)])
    /\ UNCHANGED runVars
    /\ UNCHANGED config_calls
    /\ UNCHANGED importVars

NextDbPars ==
    \/ CallPopulateConfigVars
    \/ FetchDb

SpecDbPars == InitDbPars /\ [][NextDbPars]_vars

OkCalls == {k \in DOMAIN config_calls : config_calls[k].ok}
FirstOkCall == CHOOSE k \in OkCalls : \A j \in OkCalls : k <= j
FirstDbPars == config_calls[FirstOkCall].val.db_pars

ConnStringOf(p, name) ==
    PostgresScheme \o p.db_user \o <<":">> \o p.db_password \o <<"@">> \o p.db_host
        \o <<":">> \o UsizeDigits(p.db_port) \o <<"/">> \o name

\* C11: after any sequence of populate_config_vars calls in one process,
\* DB_PARS holds the database parameters of the first call that returned Ok
\* (and is empty before that); a later successful call returns a Config with
\* its own db_pars; fetch_db_name and fetch_db_conn_string answer from the
\* first call's values.
C11_DbParsFromFirstOkCall ==
    pc = "config_calls" =>
        /\ DB_PARS = IF OkCalls = {} THEN None ELSE Some(FirstDbPars)
        /\ (config_calls # << >> /\ config_calls[Len(config_calls)].ok) =>
              LET own == config_calls[Len(config_calls)].val.db_pars
                  given == Unwrap(config_string.database)
              IN /\ own.db_user = Unwrap(given.db_user)
                 /\ own.db_password = Unwrap(given.db_password)
                 /\ IsSome(given.db_name) => own.db_name = Unwrap(given.db_name)
                 /\ ~IsSome(given.db_name) => own.db_name = DefaultDbName
        /\ IsSome(db_answers) =>
              LET a == Unwrap(db_answers)
                  before == {k \in OkCalls : k <= a.after}
              IN IF before = {} THEN ~a.name.ok /\ ~a.conn.ok
                 ELSE /\ a.name = Ok(FirstDbPars.db_name)
                      /\ a.conn = Ok(ConnStringOf(FirstDbPars, FirstDbPars.db_name))

\* Two successful calls with different database parameters, and the fetch
\* functions asked after the second.
C11_Witness ==
    /\ pc = "config_calls"
    /\ Cardinality(OkCalls) >= 2
    /\ config_calls[Len(config_calls)].ok
    /\ config_calls[Len(config_calls)].val.db_pars.db_name # FirstDbPars.db_name
    /\ config_calls[Len(config_calls)].val.db_pars.db_user # FirstDbPars.db_user
    /\ IsSome(db_answers)
    /\ Unwrap(db_answers).after = Len(config_calls)
    /\ Unwrap(db_answers).name = Ok(FirstDbPars.db_name)

====
